---- MODULE Spec2Model ----
(***************************************************************************)
(* A model of the Todo HTTP service of app/routes.py: the five /todos      *)
(* handlers over the SQLAlchemy session `db.session` and the committed     *)
(* table behind it.                                                        *)
(*                                                                         *)
(* Two specifications:                                                     *)
(*   Spec      requests handled one after another, each handler one step,  *)
(*             with store failures injected at each store call;            *)
(*   SpecConc  two PUT /todos/{id} requests on the same row, each in its   *)
(*             own session, interleaved at their load, field-assignment    *)
(*             and commit steps.                                           *)
(*                                                                         *)
(* app/models.py is not part of the sources at hand; the Todo row, its     *)
(* defaults, the id sequence and the creation clock are modelled from the  *)
(* data model of the specification (see NewTodo, to_dict, StoreAccepts).   *)
(***************************************************************************)
EXTENDS Integers, Sequences, FiniteSets, TLC

\* ------------------------------------------------------------------ bounds

\* The number of rows the store ever inserts (ids 1..MaxTodos).
MaxTodos == 2

\* Python None / JSON null, as a value of a JSON string field. No title of
\* Titles is this string.
None == "None"

\* The non-empty titles requests carry.
Titles == {"a", "b"}

\* An optional key k of a JSON object, with a value of V: absent, or k :> v.
Opt(k, V) == {<<>>} \cup {k :> v : v \in V}

\* The JSON objects a POST /todos carries. Valid ones: a non-empty title, with
\* or without a description and a completed key. Invalid ones: the empty
\* object, a title that is empty or null, no title beside other keys.
PostObjects ==
    {t @@ d @@ c : t \in {"title" :> v : v \in Titles},
                   d \in Opt("description", {"d"}),
                   c \in Opt("completed", {TRUE})}
    \cup {<<>>, "title" :> "", "title" :> None,
          ("description" :> "d") @@ ("completed" :> TRUE)}

\* The JSON objects a PUT /todos/{id} carries: every subset of the three keys,
\* and each key alone with its other values (the empty string, null, false).
PutObjects ==
    {t @@ d @@ c : t \in Opt("title", {"b"}),
                   d \in Opt("description", {"d"}),
                   c \in Opt("completed", {TRUE})}
    \cup {"title" :> v : v \in {"a", "", None}}
    \cup {"description" :> "", "completed" :> FALSE}

\* What request.get_json() hands the handler: None (the body `null`), a JSON
\* object, or a non-empty JSON array (a truthy value without .get).
Body(kind, obj) == [kind |-> kind, obj |-> obj]
NullBody == Body("null", <<>>)
ListBody == Body("list", <<>>)
PostBodies == {NullBody, ListBody} \cup {Body("object", o) : o \in PostObjects}
PutBodies == {NullBody, ListBody} \cup {Body("object", o) : o \in PutObjects}

\* The ids requests name: the ids the store can assign. An id not assigned yet,
\* or deleted, names no Todo.
RequestIds == 1..MaxTodos

\* ------------------------------------------------------------------- state

VARIABLES
    db,        \* the committed table: id -> row
    sess,      \* the table as db.session's queries see it (pending changes included)
    nextId,    \* the next id the store assigns
    clock,     \* the creation clock
    uow,       \* the current request's unit of work: none, open, committed, rolledback
    req,       \* the request handled last
    resp,      \* its response
    prev,      \* sess, db as they were when that request arrived
    deleted,   \* the ids a DELETE answered 200 for
    cdata,     \* SpecConc: each request's payload
    cpc,       \* SpecConc: each request's position
    ctodo,     \* SpecConc: each request's in-memory Todo
    cloaded,   \* SpecConc: the column values each request's session loaded
    corder     \* SpecConc: the requests in the order they committed

vars == <<db, sess, nextId, clock, uow, req, resp, prev, deleted,
          cdata, cpc, ctodo, cloaded, corder>>

seqVars == <<sess, nextId, clock, uow, req, resp, prev, deleted>>
concVars == <<cdata, cpc, ctodo, cloaded, corder>>

\* ------------------------------------------------------ the Todo and the ORM

\* Todo(title=..., description=...) as the store inserts it: completed defaults to
\* false, the id and created_at are assigned on insert.
NewTodo(title, description, now) ==
    [title |-> title, description |-> description, completed |-> FALSE,
     created_at |-> now]

\* todo.to_dict()
to_dict(id, todo) ==
    [id |-> id, title |-> todo.title, description |-> todo.description,
     completed |-> todo.completed, created_at |-> todo.created_at]

\* The title column is required: a row with a null title is refused on flush.
StoreAccepts(todo) == todo.title # None

\* dict.get(key, default)
Get(data, key, default) == IF key \in DOMAIN data THEN data[key] ELSE default

\* Python truthiness of a JSON string-or-null value.
Truthy(v) == v # None /\ v # ""

\* The table t with the row of id removed.
Without(t, id) == [j \in DOMAIN t \ {id} |-> t[j]]

\* The table t with row todo stored under id.
With(t, id, todo) == [j \in DOMAIN t \cup {id} |-> IF j = id THEN todo ELSE t[j]]

\* A slip in the ordering: oldest first.
RECURSIVE order_by_created_at_asc(_, _)
order_by_created_at_asc(t, ids) ==
    IF ids = {} THEN <<>>
    ELSE LET first == CHOOSE i \in ids :
                          \A j \in ids : t[i].created_at <= t[j].created_at
         IN  <<first>> \o order_by_created_at_asc(t, ids \ {first})

\* The ids of table t, by created_at descending: order_by(Todo.created_at.desc()).
RECURSIVE order_by_created_at_desc(_, _)
order_by_created_at_desc(t, ids) ==
    IF ids = {} THEN <<>>
    ELSE LET first == CHOOSE i \in ids :
                          \A j \in ids : t[i].created_at >= t[j].created_at
         IN  <<first>> \o order_by_created_at_desc(t, ids \ {first})

\* ---------------------------------------------------------------- responses

\* A response: the status code and the JSON envelope. data is the list of
\* serialized Todos the envelope carries (one for a single-Todo response, none
\* when the envelope has no data key); count is the count key of the list envelope.
\* storeError: the request met a store error; unhandled: the exception left the handler.
Response(status, success, data, storeError, unhandled) ==
    [status |-> status, success |-> success, data |-> data, count |-> Len(data),
     storeError |-> storeError, unhandled |-> unhandled]

\* A slip in the status code of the not-found answer.
not_found_as_bad_request == Response(400, FALSE, <<>>, FALSE, FALSE)

\* jsonify({'success': False, 'error': 'Todo not found'}), 404
not_found == Response(404, FALSE, <<>>, FALSE, FALSE)

\* An exception no handler catches: the framework answers 500.
unhandled_error(storeError) == Response(500, FALSE, <<>>, storeError, TRUE)

\* What GET /todos answers when the session's table is t and the query succeeds.
get_todos_response(t) ==
    LET ids == order_by_created_at_desc(t, DOMAIN t)
    IN  Response(200, TRUE, [k \in 1..Len(ids) |-> to_dict(ids[k], t[ids[k]])],
                 FALSE, FALSE)

\* What GET /todos/{id} answers when the session's table is t and the query succeeds.
get_todo_response(t, id) ==
    IF id \notin DOMAIN t THEN not_found
    ELSE Response(200, TRUE, <<to_dict(id, t[id])>>, FALSE, FALSE)

\* -------------------------------------------------- fragments of the handlers

\* A slip in the validation: `'title' in data` instead of a truthy title.
create_validate_key_only(body) ==
    /\ body.kind = "object"
    /\ "title" \in DOMAIN body.obj

\* create_todo: `if not data or not data.get('title')` is false.
create_validate(body) ==
    /\ body.kind = "object"
    /\ body.obj # <<>>
    /\ Truthy(Get(body.obj, "title", None))

\* A slip in the construction: completed is taken from the payload.
create_fields_with_completed(data, now) ==
    [NewTodo(data["title"], Get(data, "description", ""), now)
        EXCEPT !.completed = Get(data, "completed", FALSE)]

\* create_todo: Todo(title=data['title'], description=data.get('description', ''))
create_fields(data, now) ==
    NewTodo(data["title"], Get(data, "description", ""), now)

\* A slip in the assignments: the completed line is missing.
update_fields_without_completed(todo, data) ==
    [todo EXCEPT !.title = Get(data, "title", todo.title),
                 !.description = Get(data, "description", todo.description)]

\* A slip in the merge: a key the payload lacks is reset to its default
\* (replace semantics).
update_fields_replace(todo, data) ==
    [todo EXCEPT !.title = Get(data, "title", todo.title),
                 !.description = Get(data, "description", ""),
                 !.completed = Get(data, "completed", FALSE)]

\* update_todo: the three assignments to the loaded todo.
update_fields(todo, data) ==
    [todo EXCEPT !.title = Get(data, "title", todo.title),
                 !.description = Get(data, "description", todo.description),
                 !.completed = Get(data, "completed", todo.completed)]

\* update_todo: db.session.commit() flushes the todo as an UPDATE that sets the
\* columns whose value differs from the value the session loaded, and no
\* others; row is the committed row the UPDATE meets.
flush_update(row, loaded, todo) ==
    [f \in DOMAIN row |-> IF todo[f] # loaded[f] THEN todo[f] ELSE row[f]]

\* A slip in the removal: the row is never marked deleted.
delete_row_kept(t, id) == t

\* delete_todo: db.session.delete(todo), as the session then sees the table.
delete_row(t, id) == Without(t, id)

\* A slip in an except block: no rollback, what is pending stays in the session.
rollback_forgotten(pending) == [sess |-> pending, uow |-> "open"]

\* The except blocks: db.session.rollback() drops what is pending, and the
\* session sees the committed table again.
create_rollback(pending) == [sess |-> db, uow |-> "rolledback"]
update_rollback(pending) == [sess |-> db, uow |-> "rolledback"]
delete_rollback(pending) == [sess |-> db, uow |-> "rolledback"]

\* get_todos has no rollback in its except block: what is pending stays, and
\* the unit of work stays open.
get_todos_except(pending) == [sess |-> pending, uow |-> "open"]

\* No request is being handled: the last response has been sent.
Idle == req.op = "NONE"

\* The end of a handler: the response and the store as the handler leaves them.
Finish(request, response, s, d, u) ==
    /\ req' = request
    /\ resp' = response
    /\ sess' = s
    /\ db' = d
    /\ uow' = u
    /\ prev' = [sess |-> sess, db |-> db]
    /\ UNCHANGED concVars

Request(op, id, body, fault) == [op |-> op, id |-> id, body |-> body, fault |-> fault]

NoRequest == Request("NONE", 0, NullBody, "none")
NoResponse == [status |-> 0, success |-> TRUE, data |-> <<>>, count |-> 0,
               storeError |-> FALSE, unhandled |-> FALSE]

\* ------------------------------------------------------------ the handlers

\* GET /todos
get_todos(fault) ==
    /\ Idle
    /\ IF fault = "query"
       THEN LET e == get_todos_except(sess)
            IN  Finish(Request("LIST", 0, NullBody, fault),
                       Response(500, FALSE, <<>>, TRUE, FALSE), e.sess, db, e.uow)
       ELSE Finish(Request("LIST", 0, NullBody, fault),
                   get_todos_response(sess), sess, db, "open")
    /\ UNCHANGED <<nextId, clock, deleted>>

\* GET /todos/{id}
get_todo(todo_id, fault) ==
    /\ Idle
    /\ IF fault = "query"
       THEN Finish(Request("GET", todo_id, NullBody, fault),
                   unhandled_error(TRUE), sess, db, "open")
       ELSE Finish(Request("GET", todo_id, NullBody, fault),
                   get_todo_response(sess, todo_id), sess, db, "open")
    /\ UNCHANGED <<nextId, clock, deleted>>

\* POST /todos
create_todo(body, fault) ==
    /\ Idle
    /\ LET request == Request("POST", 0, body, fault)
           todo == create_fields(body.obj, clock)
           pending == With(sess, nextId, todo)
       IN  IF body.kind = "list"
           THEN \* data.get raises AttributeError before the try block
                /\ Finish(request, unhandled_error(FALSE), sess, db, "none")
                /\ UNCHANGED <<nextId, clock, deleted>>
           ELSE IF ~create_validate(body)
           THEN /\ Finish(request, Response(400, FALSE, <<>>, FALSE, FALSE),
                          sess, db, "none")
                /\ UNCHANGED <<nextId, clock, deleted>>
           ELSE IF fault = "flush"
           THEN \* the INSERT fails: nothing is pending
                /\ LET e == create_rollback(sess)
                   IN  Finish(request, Response(500, FALSE, <<>>, TRUE, FALSE),
                              e.sess, db, e.uow)
                /\ UNCHANGED <<nextId, clock, deleted>>
           ELSE /\ nextId <= MaxTodos
                /\ nextId' = nextId + 1
                /\ clock' = clock + 1
                /\ UNCHANGED deleted
                /\ IF fault = "commit" \/ ~StoreAccepts(todo)
                   THEN \* the INSERT is flushed, the COMMIT fails
                        LET e == create_rollback(pending)
                        IN  Finish(request, Response(500, FALSE, <<>>, TRUE, FALSE),
                                   e.sess, db, e.uow)
                   ELSE Finish(request,
                               Response(201, TRUE, <<to_dict(nextId, todo)>>, FALSE, FALSE),
                               pending, pending, "committed")

\* PUT /todos/{id}
update_todo(todo_id, body, fault) ==
    /\ Idle
    /\ LET request == Request("PUT", todo_id, body, fault)
           \* data = request.get_json() or {}
           data == IF body.kind = "object" THEN body.obj ELSE <<>>
       IN  /\ UNCHANGED <<nextId, clock, deleted>>
           /\ IF fault = "query"
              THEN \* db.session.get raises: except SQLAlchemyError
                   LET e == update_rollback(sess)
                   IN  Finish(request, Response(500, FALSE, <<>>, TRUE, FALSE),
                              e.sess, db, e.uow)
              ELSE IF todo_id \notin DOMAIN sess
              THEN Finish(request, not_found, sess, db, "open")
              ELSE IF body.kind = "list"
              THEN \* data.get raises AttributeError: except Exception
                   LET e == update_rollback(sess)
                   IN  Finish(request, Response(500, FALSE, <<>>, FALSE, FALSE),
                              e.sess, db, e.uow)
              ELSE LET todo == update_fields(sess[todo_id], data)
                       stored == flush_update(sess[todo_id], sess[todo_id], todo)
                       pending == With(sess, todo_id, stored)
                   IN  IF fault = "commit" \/ ~StoreAccepts(todo)
                       THEN LET e == update_rollback(pending)
                            IN  Finish(request, Response(500, FALSE, <<>>, TRUE, FALSE),
                                       e.sess, db, e.uow)
                       ELSE \* to_dict reads the row back after the commit
                            Finish(request,
                                   Response(200, TRUE, <<to_dict(todo_id, stored)>>,
                                            FALSE, FALSE),
                                   pending, pending, "committed")

\* DELETE /todos/{id}
delete_todo(todo_id, fault) ==
    /\ Idle
    /\ LET request == Request("DELETE", todo_id, NullBody, fault)
       IN  IF fault = "query"
           THEN \* Todo.query.get raises before the try block
                /\ Finish(request, unhandled_error(TRUE), sess, db, "open")
                /\ UNCHANGED <<nextId, clock, deleted>>
           ELSE IF todo_id \notin DOMAIN sess
           THEN /\ Finish(request, not_found, sess, db, "open")
                /\ UNCHANGED <<nextId, clock, deleted>>
           ELSE IF fault \in {"delete", "commit"}
           THEN /\ LET pending == IF fault = "commit" THEN delete_row(sess, todo_id)
                                  ELSE sess
                       e == delete_rollback(pending)
                   IN  Finish(request, Response(500, FALSE, <<>>, TRUE, FALSE),
                              e.sess, db, e.uow)
                /\ UNCHANGED <<nextId, clock, deleted>>
           ELSE /\ LET pending == delete_row(sess, todo_id)
                   IN  Finish(request, Response(200, TRUE, <<>>, FALSE, FALSE),
                              pending, pending, "committed")
                /\ deleted' = deleted \cup {todo_id}
                /\ UNCHANGED <<nextId, clock>>

\* The response leaves and the request ends; the handlers never close
\* db.session, which stays as the handler left it for the next request.
send_response ==
    /\ ~Idle
    /\ req' = NoRequest
    /\ resp' = NoResponse
    /\ prev' = [sess |-> <<>>, db |-> <<>>]
    /\ uow' = "none"
    /\ UNCHANGED <<db, sess, nextId, clock, deleted>>
    /\ UNCHANGED concVars

\* ------------------------------------------------------- the specification

ConcIdle ==
    /\ cdata = <<>>
    /\ cpc = <<>>
    /\ ctodo = <<>>
    /\ cloaded = <<>>
    /\ corder = <<>>

Init ==
    /\ db = <<>>
    /\ sess = <<>>
    /\ nextId = 1
    /\ clock = 1
    /\ uow = "none"
    /\ req = NoRequest
    /\ resp = NoResponse
    /\ prev = [sess |-> <<>>, db |-> <<>>]
    /\ deleted = {}
    /\ ConcIdle

Next ==
    \/ \E fault \in {"none", "query"} : get_todos(fault)
    \/ \E id \in RequestIds, fault \in {"none", "query"} : get_todo(id, fault)
    \/ \E body \in PostBodies, fault \in {"none", "flush", "commit"} :
           create_todo(body, fault)
    \/ \E id \in RequestIds, body \in PutBodies, fault \in {"none", "commit"} :
           update_todo(id, body, fault)
    \/ \E id \in RequestIds : update_todo(id, NullBody, "query")
    \/ \E id \in RequestIds, fault \in {"none", "query", "delete", "commit"} :
           delete_todo(id, fault)
    \/ send_response

Spec == Init /\ [][Next]_vars

\* ------------------------------------------- two concurrent PUT /todos/{id}

\* The two requests, the row both name, and the payloads they carry.
Requests == {1, 2}
ConcId == 1
ConcObjects ==
    {t @@ c : t \in Opt("title", Titles), c \in Opt("completed", BOOLEAN)}

\* update_todo, first step: db.session.get(Todo, todo_id) in the request's own
\* session reads the committed row.
update_todo_load(r) ==
    /\ cpc[r] = "load"
    /\ cloaded' = [cloaded EXCEPT ![r] = db[ConcId]]
    /\ ctodo' = [ctodo EXCEPT ![r] = db[ConcId]]
    /\ cpc' = [cpc EXCEPT ![r] = "assign"]
    /\ UNCHANGED <<db, cdata, corder>>
    /\ UNCHANGED seqVars

\* update_todo, second step: the three assignments, on the in-memory todo.
update_todo_assign(r) ==
    /\ cpc[r] = "assign"
    /\ ctodo' = [ctodo EXCEPT ![r] = update_fields(ctodo[r], cdata[r])]
    /\ cpc' = [cpc EXCEPT ![r] = "commit"]
    /\ UNCHANGED <<db, cdata, cloaded, corder>>
    /\ UNCHANGED seqVars

\* update_todo, third step: db.session.commit(), the UPDATE and the COMMIT, or
\* a store error and the rollback.
update_todo_commit(r, fault) ==
    /\ cpc[r] = "commit"
    /\ IF fault = "commit" \/ ~StoreAccepts(ctodo[r])
       THEN /\ cpc' = [cpc EXCEPT ![r] = "failed"]
            /\ UNCHANGED <<db, corder>>
       ELSE /\ db' = [db EXCEPT ![ConcId] =
                         flush_update(db[ConcId], cloaded[r], ctodo[r])]
            /\ corder' = Append(corder, r)
            /\ cpc' = [cpc EXCEPT ![r] = "done"]
    /\ UNCHANGED <<cdata, ctodo, cloaded>>
    /\ UNCHANGED seqVars

\* One stored Todo, as a POST and PUTs leave it, and two PUTs arriving.
InitConc ==
    /\ \E title \in Titles, completed \in BOOLEAN :
           db = (ConcId :> [NewTodo(title, "", 1) EXCEPT !.completed = completed])
    /\ sess = db
    /\ nextId = 2
    /\ clock = 2
    /\ uow = "none"
    /\ req = NoRequest
    /\ resp = NoResponse
    /\ prev = [sess |-> <<>>, db |-> <<>>]
    /\ deleted = {}
    /\ cdata \in [Requests -> ConcObjects]
    /\ cpc = [r \in Requests |-> "load"]
    /\ ctodo = [r \in Requests |-> db[ConcId]]
    /\ cloaded = [r \in Requests |-> db[ConcId]]
    /\ corder = <<>>

NextConc ==
    \/ \E r \in Requests : update_todo_load(r)
    \/ \E r \in Requests : update_todo_assign(r)
    \/ \E r \in Requests, fault \in {"none", "commit"} : update_todo_commit(r, fault)

SpecConc == InitConc /\ [][NextConc]_vars

\* ------------------------------------------------------------- the claims

\* The JSON object the last request's handler read.
Payload == IF req.body.kind = "object" THEN req.body.obj ELSE <<>>

Fields == {"title", "description", "completed"}

\* C1: a successful PUT /todos/{id} sets exactly the fields its payload carries
\* to the payload's values, and leaves the fields it lacks, the target's id and
\* created_at, and every other stored Todo as they were.
C1_UpdateMerges ==
    (req.op = "PUT" /\ resp.status = 200) =>
        /\ req.id \in DOMAIN prev.sess
        /\ DOMAIN sess = DOMAIN prev.sess
        /\ db = sess
        /\ \A f \in Fields :
               sess[req.id][f] = IF f \in DOMAIN Payload THEN Payload[f]
                                 ELSE prev.sess[req.id][f]
        /\ sess[req.id].created_at = prev.sess[req.id].created_at
        /\ \A j \in DOMAIN sess \ {req.id} : sess[j] = prev.sess[j]
        /\ resp.data = <<to_dict(req.id, sess[req.id])>>

\* A PUT carrying two of the three keys changed one of two stored Todos.
C1_Witness ==
    /\ req.op = "PUT"
    /\ resp.status = 200
    /\ DOMAIN Payload = {"title", "completed"}
    /\ Cardinality(DOMAIN sess) = 2
    /\ sess[req.id] # prev.sess[req.id]

\* C2: POST /todos with no payload, an empty payload, no title or an empty title
\* answers 400 with success false, touches the store not at all, and leaves the
\* stored Todos and the count GET /todos reports as they were.
C2_CreateRejectsMissingTitle ==
    (/\ req.op = "POST"
     /\ \/ req.body.kind = "null"
        \/ req.body.kind = "object" /\ ~Truthy(Get(req.body.obj, "title", None))) =>
        /\ resp.status = 400
        /\ ~resp.success
        /\ uow = "none"
        /\ sess = prev.sess
        /\ db = prev.db
        /\ get_todos_response(sess).count = get_todos_response(prev.sess).count

\* A POST with an empty title, beside a description, was refused with Todos stored.
C2_Witness ==
    /\ req.op = "POST"
    /\ req.body.kind = "object"
    /\ "title" \in DOMAIN req.body.obj
    /\ req.body.obj["title"] = ""
    /\ resp.status = 400
    /\ DOMAIN sess # {}

\* C3: GET, PUT and DELETE on an id that names no stored Todo leave the whole
\* store as it was and, when the lookup itself does not fail, answer 404 with
\* success false.
C3_MissingIdIsNotFound ==
    (req.op \in {"GET", "PUT", "DELETE"} /\ req.id \notin DOMAIN prev.sess) =>
        /\ sess = prev.sess
        /\ db = prev.db
        /\ ~resp.storeError => (resp.status = 404 /\ ~resp.success)

\* A PUT carrying a title named an id that was deleted, with another Todo stored.
C3_Witness ==
    /\ req.op = "PUT"
    /\ req.id \in deleted
    /\ "title" \in DOMAIN Payload
    /\ resp.status = 404
    /\ DOMAIN sess # {}

C5_ListIsCompleteAndNewestFirst ==
    (req.op = "LIST" /\ ~resp.storeError) =>
        /\ resp.status = 200
        /\ resp.success
        /\ resp.count = Cardinality(DOMAIN sess)
        /\ Len(resp.data) = resp.count
        /\ {resp.data[k].id : k \in 1..Len(resp.data)} = DOMAIN sess
        /\ \A k \in 1..Len(resp.data) :
               resp.data[k] = to_dict(resp.data[k].id, sess[resp.data[k].id])
        /\ \A i, j \in 1..Len(resp.data) :
               i < j => /\ resp.data[i].created_at > resp.data[j].created_at
                        /\ resp.data[i].id > resp.data[j].id

\* GET /todos listed two Todos, the older of them updated since.
C5_Witness ==
    /\ req.op = "LIST"
    /\ resp.status = 200
    /\ resp.count = 2
    /\ resp.data[2].completed

\* C6: right after a POST /todos answered 201, GET /todos/{id} on the returned
\* id answers 200 with the payload's title, the payload's description (the
\* empty string when it has none) and completed false, whatever else the
\* payload carried.
C6_CreateThenGet ==
    (req.op = "POST" /\ resp.status = 201) =>
        LET got == get_todo_response(sess, resp.data[1].id)
        IN  /\ got.status = 200
            /\ got.success
            /\ got.data[1].title = Payload["title"]
            /\ got.data[1].description = Get(Payload, "description", "")
            /\ got.data[1].completed = FALSE
            /\ got.data = resp.data

\* A POST carrying completed:true and no description answered 201.
C6_Witness ==
    /\ req.op = "POST"
    /\ resp.status = 201
    /\ "completed" \in DOMAIN Payload
    /\ "description" \notin DOMAIN Payload

C9_StoreErrorRolledBack ==
    resp.storeError => uow \in {"committed", "rolledback"}

\* C10: every stored Todo has a non-empty title.
C10_TitleNonEmpty ==
    \A id \in DOMAIN db : Truthy(db[id].title)

\* Both concurrent requests have committed.
BothCommitted == \A r \in Requests : cpc[r] = "done"

\* The request that committed last.
LastWriter == corder[Len(corder)]

====
